---- MODULE Spec2Model ----
(***************************************************************************)
(* Rectangular cut optimizer: the edge-band-aware engine                   *)
(* (src/unnamed/part_001) and the plain engine (src/src/lib/optimizer.ts). *)
(* One run of optimize(stockPieces, cutPieces, cutWidth) is a behaviour:   *)
(* the inputs are fixed by Init, the actions are the steps of optimize and *)
(* of guillotineLayout, one placement attempt per step.                    *)
(* Numbers are integers; a quotient is kept as an exact fraction           *)
(* [num, den], den = 0 standing for the non-finite values of the           *)
(* division (0/0 = NaN, a/0 = +-Infinity).                                 *)
(***************************************************************************)
EXTENDS Integers, Sequences, FiniteSets, TLC

VARIABLES
    variant,          \* which engine runs: "edgeband" or "plain"
    stockPieces,      \* argument of optimize
    cutPieces,        \* argument of optimize
    cutWidth,         \* argument of optimize (the kerf)
    pc,               \* position in optimize / guillotineLayout
    layouts,          \* optimize: layouts pushed so far
    totalCutsNeeded,  \* optimize: sum of cut quantities
    cutsPlaced,       \* optimize: placements counted so far
    panel,            \* optimize: index of the panel instance being laid out
    remainingCuts,    \* guillotineLayout: sorted copy of the cut list
    unit,             \* guillotineLayout: index of the next unit-demand
    positions,        \* guillotineLayout: placements accepted on this panel
    usedArea,         \* guillotineLayout: running used-area total
    cuttingDims,      \* guillotineLayout: <<resolved size of the last cut tried>>
    result,           \* <<value returned by optimize>>, <<>> until it returns
    dxf,              \* <<entities written by generateDXF>>, <<>> until it is called
    isOptimizing,     \* useOptimizer: the value last given to setIsOptimizing
    activeLayout      \* Home: index of the layout shown, counted from 0

vars == <<variant, stockPieces, cutPieces, cutWidth, pc, layouts,
          totalCutsNeeded, cutsPlaced, panel, remainingCuts, unit,
          positions, usedArea, cuttingDims, result, dxf,
          isOptimizing, activeLayout>>

(***************************************************************************)
(* Bounds of the model and constants of the program.                       *)
(***************************************************************************)
MaxPanels == 2      \* stock list: entries and panel instances, at most
MaxUnits == 2       \* cut list: entries and unit-demands, at most
MaxThickness == 3   \* edge-band thickness, in the runs of the Dimension Resolver
GridStep == 10      \* x += 10, y += 10 in findPlacement

Max(a, b) == IF a >= b THEN a ELSE b

RECURSIVE SumSeq(_)
SumSeq(s) == IF s = <<>> THEN 0 ELSE Head(s) + SumSeq(Tail(s))

RECURSIVE GCD(_, _)
GCD(a, b) == IF b = 0 THEN a ELSE GCD(b, a % b)

Abs(a) == IF a < 0 THEN 0 - a ELSE a

(***************************************************************************)
(* Number arithmetic of the language: a / b and q * 100 on exact           *)
(* fractions. Divide(0, 0) is NaN, Divide(a, 0) is +-Infinity.             *)
(***************************************************************************)
NaN == [num |-> 0, den |-> 0]
Infinity == [num |-> 1, den |-> 0]
NegInfinity == [num |-> 0 - 1, den |-> 0]
Zero == [num |-> 0, den |-> 1]

Fraction(a, b) ==
    LET g == GCD(Abs(a), Abs(b))
        s == IF b < 0 THEN 0 - 1 ELSE 1
    IN  [num |-> (s * a) \div g, den |-> (s * b) \div g]

Divide(a, b) ==
    IF b = 0
    THEN IF a = 0 THEN NaN ELSE IF a > 0 THEN Infinity ELSE NegInfinity
    ELSE Fraction(a, b)

Times100(q) ==
    IF q.den = 0 THEN q ELSE Fraction(q.num * 100, q.den)

IsFinite(q) == q.den # 0

(***************************************************************************)
(* Dimension Resolver.                                                     *)
(***************************************************************************)
NoEdgeBand ==
    [present |-> FALSE, thickness |-> 0,
     top |-> FALSE, bottom |-> FALSE, left |-> FALSE, right |-> FALSE]

\* Mutant: the sizes are not clamped to 1.
getCuttingDimensionsUnclamped(cut) ==
    LET band == cut.edgeBand
        applies == band.present /\ band.thickness > 0
        w1 == IF applies /\ band.left THEN cut.width - band.thickness ELSE cut.width
        w2 == IF applies /\ band.right THEN w1 - band.thickness ELSE w1
        h1 == IF applies /\ band.top THEN cut.height - band.thickness ELSE cut.height
        h2 == IF applies /\ band.bottom THEN h1 - band.thickness ELSE h1
    IN  [width |-> w2, height |-> h2]

getCuttingDimensions(cut) ==
    LET band == cut.edgeBand
        applies == band.present /\ band.thickness > 0
        w1 == IF applies /\ band.left THEN cut.width - band.thickness ELSE cut.width
        w2 == IF applies /\ band.right THEN w1 - band.thickness ELSE w1
        h1 == IF applies /\ band.top THEN cut.height - band.thickness ELSE cut.height
        h2 == IF applies /\ band.bottom THEN h1 - band.thickness ELSE h1
    IN  [width |-> Max(1, w2), height |-> Max(1, h2)]

\* The plain engine places the nominal size.
nominalDimensions(cut) == [width |-> cut.width, height |-> cut.height]

(***************************************************************************)
(* Overlap Checker.                                                        *)
(***************************************************************************)
rectsIntersect(rect1, rect2) ==
    ~(rect1.x2 < rect2.x \/ rect1.x > rect2.x2
      \/ rect1.y2 < rect2.y \/ rect1.y > rect2.y2)

inflate(x, y, width, height, kerf) ==
    [x |-> x - kerf, y |-> y - kerf,
     x2 |-> x + width + kerf, y2 |-> y + height + kerf]

\* Mutant: the rectangles are compared without the kerf around them.
canPlacePieceNoKerf(placed, x, y, width, height, kerf) ==
    \A i \in 1..Len(placed) :
        ~rectsIntersect(inflate(x, y, width, height, 0),
                        inflate(placed[i].x, placed[i].y,
                                placed[i].width, placed[i].height, 0))

canPlacePiece(placed, x, y, width, height, kerf) ==
    \A i \in 1..Len(placed) :
        ~rectsIntersect(inflate(x, y, width, height, kerf),
                        inflate(placed[i].x, placed[i].y,
                                placed[i].width, placed[i].height, kerf))

(***************************************************************************)
(* Placement Search: the two nested for loops, x outer and y inner, as a   *)
(* scan that returns <<origin>> for the first admissible origin and <<>>   *)
(* when the loops end without one.                                         *)
(***************************************************************************)
RECURSIVE scanRowFirst(_, _, _, _, _, _, _, _)
\* Mutant: y runs in the outer loop and x in the inner one.
scanRowFirst(placed, x, y, width, height, maxX, maxY, kerf) ==
    IF y > maxY THEN <<>>
    ELSE IF x > maxX
         THEN scanRowFirst(placed, 0, y + GridStep, width, height, maxX, maxY, kerf)
         ELSE IF canPlacePiece(placed, x, y, width, height, kerf)
              THEN <<[x |-> x, y |-> y]>>
              ELSE scanRowFirst(placed, x + GridStep, y, width, height, maxX, maxY, kerf)

RECURSIVE scanShifted(_, _, _, _, _, _, _, _)
scanShifted(placed, x, y, width, height, maxX, maxY, kerf) ==
    IF x > maxX THEN <<>>
    ELSE IF y > maxY
         THEN scanShifted(placed, x + GridStep, 0, width, height, maxX, maxY, kerf)
         ELSE IF canPlacePiece(placed, x, y, width, height, kerf)
              THEN <<[x |-> x, y |-> y]>>
              ELSE scanShifted(placed, x, y + GridStep, width, height, maxX, maxY, kerf)

\* Mutant: the outer loop starts half a step in.
scanFromHalfStep(placed, x, y, width, height, maxX, maxY, kerf) ==
    scanShifted(placed, x + 5, y, width, height, maxX, maxY, kerf)

RECURSIVE scan(_, _, _, _, _, _, _, _)
scan(placed, x, y, width, height, maxX, maxY, kerf) ==
    IF x > maxX THEN <<>>
    ELSE IF y > maxY
         THEN scan(placed, x + GridStep, 0, width, height, maxX, maxY, kerf)
         ELSE IF canPlacePiece(placed, x, y, width, height, kerf)
              THEN <<[x |-> x, y |-> y]>>
              ELSE scan(placed, x, y + GridStep, width, height, maxX, maxY, kerf)

mayRotate(cut) == cut.pattern = "unset" \/ cut.pattern = "none"

\* Mutant: the rotated scan is tried whatever the pattern is.
findPlacementAnyPattern(placed, stock, cut, dims, kerf) ==
    LET width == dims.width
        height == dims.height
        plain == scan(placed, 0, 0, width, height,
                      stock.width - width, stock.height - height, kerf)
        turned == scan(placed, 0, 0, height, width,
                       stock.width - height, stock.height - width, kerf)
    IN  IF plain # <<>>
        THEN <<[pieceId |-> cut.id, x |-> plain[1].x, y |-> plain[1].y,
                width |-> width, height |-> height, rotated |-> FALSE]>>
        ELSE IF width # height /\ turned # <<>>
             THEN <<[pieceId |-> cut.id, x |-> turned[1].x, y |-> turned[1].y,
                     width |-> height, height |-> width, rotated |-> TRUE]>>
             ELSE <<>>

\* src/unnamed/part_001: rotation only when the pattern allows it.
\* Mutant: the loops run to the panel's far edges, the piece size not taken off.
findPlacementToEdge(placed, stock, cut, dims, kerf) ==
    LET width == dims.width
        height == dims.height
        plain == scan(placed, 0, 0, width, height, stock.width, stock.height, kerf)
        turned == scan(placed, 0, 0, height, width, stock.width, stock.height, kerf)
    IN  IF plain # <<>>
        THEN <<[pieceId |-> cut.id, x |-> plain[1].x, y |-> plain[1].y,
                width |-> width, height |-> height, rotated |-> FALSE]>>
        ELSE IF width # height /\ mayRotate(cut) /\ turned # <<>>
             THEN <<[pieceId |-> cut.id, x |-> turned[1].x, y |-> turned[1].y,
                     width |-> height, height |-> width, rotated |-> TRUE]>>
             ELSE <<>>

\* Mutant: the rotated scan is tried before the un-rotated one.
findPlacementTurnedFirst(placed, stock, cut, dims, kerf) ==
    LET width == dims.width
        height == dims.height
        plain == scan(placed, 0, 0, width, height,
                      stock.width - width, stock.height - height, kerf)
        turned == scan(placed, 0, 0, height, width,
                       stock.width - height, stock.height - width, kerf)
    IN  IF width # height /\ mayRotate(cut) /\ turned # <<>>
        THEN <<[pieceId |-> cut.id, x |-> turned[1].x, y |-> turned[1].y,
                width |-> height, height |-> width, rotated |-> TRUE]>>
        ELSE IF plain # <<>>
             THEN <<[pieceId |-> cut.id, x |-> plain[1].x, y |-> plain[1].y,
                     width |-> width, height |-> height, rotated |-> FALSE]>>
             ELSE <<>>

\* Mutant: the un-rotated branch records the sizes exchanged.
findPlacementSwapped(placed, stock, cut, dims, kerf) ==
    LET width == dims.width
        height == dims.height
        plain == scan(placed, 0, 0, width, height,
                      stock.width - width, stock.height - height, kerf)
        turned == scan(placed, 0, 0, height, width,
                       stock.width - height, stock.height - width, kerf)
    IN  IF plain # <<>>
        THEN <<[pieceId |-> cut.id, x |-> plain[1].x, y |-> plain[1].y,
                width |-> height, height |-> width, rotated |-> FALSE]>>
        ELSE IF width # height /\ mayRotate(cut) /\ turned # <<>>
             THEN <<[pieceId |-> cut.id, x |-> turned[1].x, y |-> turned[1].y,
                     width |-> height, height |-> width, rotated |-> TRUE]>>
             ELSE <<>>

findPlacement(placed, stock, cut, dims, kerf) ==
    LET width == dims.width
        height == dims.height
        plain == scan(placed, 0, 0, width, height,
                      stock.width - width, stock.height - height, kerf)
        turned == scan(placed, 0, 0, height, width,
                       stock.width - height, stock.height - width, kerf)
    IN  IF plain # <<>>
        THEN <<[pieceId |-> cut.id, x |-> plain[1].x, y |-> plain[1].y,
                width |-> width, height |-> height, rotated |-> FALSE]>>
        ELSE IF width # height /\ mayRotate(cut) /\ turned # <<>>
             THEN <<[pieceId |-> cut.id, x |-> turned[1].x, y |-> turned[1].y,
                     width |-> height, height |-> width, rotated |-> TRUE]>>
             ELSE <<>>

\* src/src/lib/optimizer.ts: rotation whenever width differs from height.
findPlacementPlain(placed, stock, cut, kerf) ==
    LET plain == scan(placed, 0, 0, cut.width, cut.height,
                      stock.width - cut.width, stock.height - cut.height, kerf)
        turned == scan(placed, 0, 0, cut.height, cut.width,
                       stock.width - cut.height, stock.height - cut.width, kerf)
    IN  IF plain # <<>>
        THEN <<[pieceId |-> cut.id, x |-> plain[1].x, y |-> plain[1].y,
                width |-> cut.width, height |-> cut.height, rotated |-> FALSE]>>
        ELSE IF cut.width # cut.height /\ turned # <<>>
             THEN <<[pieceId |-> cut.id, x |-> turned[1].x, y |-> turned[1].y,
                     width |-> cut.height, height |-> cut.width, rotated |-> TRUE]>>
             ELSE <<>>

(***************************************************************************)
(* Panel Layout Builder: the sort and the expansion of quantities.         *)
(***************************************************************************)
nominalArea(cut) == cut.width * cut.height

\* Array.prototype.sort with (a, b) => b.area - a.area: stable, descending.
RECURSIVE insertSorted(_, _)
insertSorted(sorted, cut) ==
    IF sorted = <<>> THEN <<cut>>
    ELSE IF nominalArea(Head(sorted)) >= nominalArea(cut)
         THEN <<Head(sorted)>> \o insertSorted(Tail(sorted), cut)
         ELSE <<cut>> \o sorted

RECURSIVE sortCuts(_)
sortCuts(cuts) ==
    IF cuts = <<>> THEN <<>>
    ELSE insertSorted(sortCuts(SubSeq(cuts, 1, Len(cuts) - 1)), cuts[Len(cuts)])

\* for (const cut of remainingCuts) for (q < cut.quantity): one entry per pass.
RECURSIVE unitDemands(_)
unitDemands(cuts) ==
    IF cuts = <<>> THEN <<>>
    ELSE [q \in 1..Head(cuts).quantity |-> Head(cuts)] \o unitDemands(Tail(cuts))

\* Mutant: one panel instance per stock specification, whatever its quantity.
panelInstancesOnePerSpec(stocks) == stocks

\* for (const stock of stockPieces) for (q < stock.quantity): one entry per pass.
RECURSIVE panelInstances(_)
panelInstances(stocks) ==
    IF stocks = <<>> THEN <<>>
    ELSE [q \in 1..Head(stocks).quantity |-> Head(stocks)] \o panelInstances(Tail(stocks))

(***************************************************************************)
(* Inputs of a run. Stock and cut specifications are drawn from small      *)
(* catalogues; identifiers are the positions in the lists (generateId      *)
(* gives every piece its own identifier).                                  *)
(***************************************************************************)
Variants == {"edgeband", "plain"}
Kerfs == {0, 3}

StockShapes == {<<30, 20>>, <<40, 30>>}
\* Panels without area, for the runs on degenerate stock.
DegenerateShapes == {<<0, 30>>, <<30, 0>>, <<30, 20>>}

band(t, top, bottom, left, right) ==
    [present |-> TRUE, thickness |-> t,
     top |-> top, bottom |-> bottom, left |-> left, right |-> right]

SmallSquare ==
    [width |-> 10, height |-> 10, pattern |-> "unset", edgeBand |-> NoEdgeBand]
Upright ==
    [width |-> 20, height |-> 30, pattern |-> "unset", edgeBand |-> NoEdgeBand]
UprightGrain ==
    [width |-> 20, height |-> 30, pattern |-> "vertical", edgeBand |-> NoEdgeBand]
BandedStrip ==
    [width |-> 20, height |-> 10, pattern |-> "none",
     edgeBand |-> band(7, FALSE, FALSE, TRUE, TRUE)]
BandedBoard ==
    [width |-> 30, height |-> 30, pattern |-> "horizontal",
     edgeBand |-> band(5, TRUE, TRUE, FALSE, FALSE)]

CutCatalogue == {SmallSquare, Upright, UprightGrain, BandedStrip, BandedBoard}

stockEntry(i, shape, quantity) ==
    [id |-> i, width |-> shape[1], height |-> shape[2], quantity |-> quantity]

cutEntry(i, piece, quantity) ==
    [id |-> i, width |-> piece.width, height |-> piece.height,
     quantity |-> quantity, pattern |-> piece.pattern, edgeBand |-> piece.edgeBand]

cutLoad(cuts) == SumSeq([i \in 1..Len(cuts) |-> cuts[i].quantity])

\* Lists of <<item, quantity>> whose entries, each counted for its quantity
\* and for one when the quantity is 0, add up to at most `most`.
ListsOver(items, quantities, most) ==
    { list \in UNION { [1..n -> items \X quantities] : n \in 0..most } :
        SumSeq([i \in 1..Len(list) |-> Max(1, list[i][2])]) <= most }

StockLists == ListsOver(StockShapes, 1..MaxPanels, MaxPanels)
CutLists == ListsOver(CutCatalogue, 1..MaxUnits, MaxUnits)
DegenerateStockLists == ListsOver(DegenerateShapes, 0..MaxPanels, MaxPanels)
DegenerateCutLists == ListsOver({SmallSquare, Upright}, 1..MaxUnits, MaxUnits)

(***************************************************************************)
(* optimize and guillotineLayout, step by step.                            *)
(***************************************************************************)
ZeroResult ==
    [layouts |-> <<>>, totalWaste |-> 0, averageUtilization |-> Zero,
     totalStockUsed |-> 0, totalCutsNeeded |-> 0, cutsPlaced |-> 0]

\* Nothing computed yet.
Fresh ==
    /\ layouts = <<>>
    /\ totalCutsNeeded = 0
    /\ cutsPlaced = 0
    /\ panel = 0
    /\ remainingCuts = <<>>
    /\ unit = 0
    /\ positions = <<>>
    /\ usedArea = 0
    /\ cuttingDims = <<>>
    /\ result = <<>>
    /\ dxf = <<>>
    /\ isOptimizing = FALSE
    /\ activeLayout = 0

Start == pc = "call" /\ Fresh

Init ==
    /\ variant \in Variants
    /\ \E list \in StockLists :
          stockPieces = [i \in 1..Len(list) |-> stockEntry(i, list[i][1], list[i][2])]
    /\ \E list \in CutLists :
          cutPieces = [i \in 1..Len(list) |-> cutEntry(i, list[i][1], list[i][2])]
    /\ cutWidth \in Kerfs
    /\ Start

InitDegenerate ==
    /\ variant \in Variants
    /\ \E list \in DegenerateStockLists :
          stockPieces = [i \in 1..Len(list) |-> stockEntry(i, list[i][1], list[i][2])]
    /\ \E list \in DegenerateCutLists :
          cutPieces = [i \in 1..Len(list) |-> cutEntry(i, list[i][1], list[i][2])]
    /\ cutWidth = 3
    /\ Start

inputs == <<variant, stockPieces, cutPieces, cutWidth>>
page == <<isOptimizing, activeLayout>>
locals == <<remainingCuts, unit, positions, usedArea, cuttingDims>>

\* Mutant: only the stock list is tested.
isEmptyInputStockOnly(stocks, cuts) == Len(stocks) = 0

\* optimize, line 255: the test for the degenerate case.
isEmptyInput(stocks, cuts) == Len(stocks) = 0 \/ Len(cuts) = 0

\* optimize, lines 255-264: either list empty.
optimizeEmpty ==
    /\ pc = "call"
    /\ isEmptyInput(stockPieces, cutPieces)
    /\ result' = <<ZeroResult>>
    /\ pc' = "done"
    /\ UNCHANGED <<inputs, page, dxf, layouts, totalCutsNeeded, cutsPlaced, panel, locals>>

\* optimize, lines 266-268.
optimizeBegin ==
    /\ pc = "call"
    /\ ~isEmptyInput(stockPieces, cutPieces)
    /\ layouts' = <<>>
    /\ totalCutsNeeded' = cutLoad(cutPieces)
    /\ cutsPlaced' = 0
    /\ panel' = 1
    /\ pc' = "stock"
    /\ UNCHANGED <<inputs, page, dxf, locals, result>>

\* Mutant: the pieces placed on earlier panels are taken off the demand.
cutsOfferedDepleted(cuts, done) ==
    [i \in 1..Len(cuts) |->
        LET placedBefore ==
                SumSeq([k \in 1..Len(done) |->
                    Cardinality({j \in 1..Len(done[k].positions) :
                                    done[k].positions[j].pieceId = cuts[i].id})])
        IN  [cuts[i] EXCEPT !.quantity = Max(0, cuts[i].quantity - placedBefore)]]

\* optimize, line 273: the cut list handed to guillotineLayout for a panel
\* instance is the whole cut list, whatever was placed before (done).
cutsOffered(cuts, done) == cuts

\* Mutant: the sort works on the argument itself.
cutsSortedInPlace(cuts) == sortCuts(cuts)

\* guillotineLayout, line 120: the sort works on the copy [...cuts], so the
\* caller's list keeps its order.
cutsAfterSort(cuts) == cuts

\* guillotineLayout, lines 119-127: fresh positions, sorted copy of the cuts.
guillotineBegin ==
    /\ pc = "stock"
    /\ panel <= Len(panelInstances(stockPieces))
    /\ positions' = <<>>
    /\ remainingCuts' = sortCuts(cutsOffered(cutPieces, layouts))
    /\ cutPieces' = cutsAfterSort(cutPieces)
    /\ usedArea' = 0
    /\ unit' = 1
    /\ pc' = "cut"
    /\ UNCHANGED <<variant, stockPieces, cutWidth, page, dxf, layouts, totalCutsNeeded,
                   cutsPlaced, panel, cuttingDims, result>>

\* The size an engine works with, and the placement it finds.
dimensionsBy(engine, cut) ==
    IF engine = "edgeband" THEN getCuttingDimensions(cut) ELSE nominalDimensions(cut)

placementBy(engine, placed, stock, cut, kerf) ==
    IF engine = "edgeband"
    THEN findPlacement(placed, stock, cut, getCuttingDimensions(cut), kerf)
    ELSE findPlacementPlain(placed, stock, cut, kerf)

cuttingDimensions(cut) == dimensionsBy(variant, cut)

placementFor(placed, stock, cut) == placementBy(variant, placed, stock, cut, cutWidth)

\* Mutant: the width is multiplied by itself.
areaAddedSquare(dims) == dims.width * dims.width

\* What one successful placement adds to usedArea.
areaAdded(dims) == dims.width * dims.height

\* Mutant: a placement adds its area twice.
usedAreaAfterTwice(used, placement, dims) ==
    IF placement # <<>> THEN used + 2 * areaAdded(dims) ELSE used

\* Mutant: the area is added whether or not a slot was found.
usedAreaAfterAlways(used, placement, dims) == used + areaAdded(dims)

\* guillotineLayout, lines 135-138: usedArea grows only under `if (placement)`.
usedAreaAfter(used, placement, dims) ==
    IF placement # <<>> THEN used + areaAdded(dims) ELSE used

\* guillotineLayout, lines 128-140: one pass of the inner loop.
placeCut ==
    /\ pc = "cut"
    /\ unit <= Len(unitDemands(remainingCuts))
    /\ LET stock == panelInstances(stockPieces)[panel]
           cut == unitDemands(remainingCuts)[unit]
           placement == placementFor(positions, stock, cut)
       IN  /\ cuttingDims' = <<cuttingDimensions(cut)>>
           /\ positions' = positions \o placement
           /\ usedArea' = usedAreaAfter(usedArea, placement, cuttingDimensions(cut))
    /\ unit' = unit + 1
    /\ UNCHANGED <<inputs, page, dxf, pc, layouts, totalCutsNeeded, cutsPlaced, panel,
                   remainingCuts, result>>

\* Mutant: the ratio is not turned into a percentage.
utilizationOfRatio(used, stockArea) == Divide(used, stockArea)

\* guillotineLayout, line 144: (usedArea / stockArea) * 100.
utilizationOf(used, stockArea) == Times100(Divide(used, stockArea))

\* guillotineLayout, lines 142-151, and optimize, lines 274-275.
guillotineEnd ==
    /\ pc = "cut"
    /\ unit > Len(unitDemands(remainingCuts))
    /\ LET stock == panelInstances(stockPieces)[panel]
           stockArea == stock.width * stock.height
           layout == [stockId |-> stock.id,
                      positions |-> positions,
                      wasteArea |-> stockArea - usedArea,
                      utilizationRate |-> utilizationOf(usedArea, stockArea)]
       IN  /\ layouts' = Append(layouts, layout)
           /\ cutsPlaced' = cutsPlaced + Len(layout.positions)
    /\ panel' = panel + 1
    /\ pc' = "stock"
    /\ UNCHANGED <<inputs, page, dxf, totalCutsNeeded, locals, result>>

totalWasteOf(ls) == SumSeq([i \in 1..Len(ls) |-> ls[i].wasteArea])

totalStockAreaOf(stocks) ==
    SumSeq([i \in 1..Len(stocks) |->
              stocks[i].width * stocks[i].height * stocks[i].quantity])

AddFraction(a, b) == Fraction(a.num * b.den + b.num * a.den, a.den * b.den)

RECURSIVE sumOfRates(_)
sumOfRates(ls) ==
    IF ls = <<>> THEN Zero
    ELSE AddFraction(Head(ls).utilizationRate, sumOfRates(Tail(ls)))

\* The arithmetic mean of the per-layout rates (of finite rates).
meanOfRates(ls) ==
    Fraction(sumOfRates(ls).num, sumOfRates(ls).den * Len(ls))

\* Mutant: the mean of the per-layout rates instead of the area-weighted rate.
averageUtilizationMean(ls, stocks) ==
    IF totalStockAreaOf(stocks) > 0 /\ ls # <<>> THEN meanOfRates(ls) ELSE Zero

averageUtilizationOf(ls, stocks) ==
    IF totalStockAreaOf(stocks) > 0
    THEN Times100(Divide(totalStockAreaOf(stocks) - totalWasteOf(ls),
                         totalStockAreaOf(stocks)))
    ELSE Zero

\* Mutant: the panel instances are counted.
totalStockUsedInstances(stocks) == Len(panelInstances(stocks))

\* optimize, line 287.
totalStockUsedOf(stocks) == Len(stocks)

\* optimize, lines 279-290.
optimizeReturn ==
    /\ pc = "stock"
    /\ panel > Len(panelInstances(stockPieces))
    /\ result' = <<[layouts |-> layouts,
                    totalWaste |-> totalWasteOf(layouts),
                    averageUtilization |-> averageUtilizationOf(layouts, stockPieces),
                    totalStockUsed |-> totalStockUsedOf(stockPieces),
                    totalCutsNeeded |-> totalCutsNeeded,
                    cutsPlaced |-> cutsPlaced]>>
    /\ pc' = "done"
    /\ UNCHANGED <<inputs, page, dxf, layouts, totalCutsNeeded, cutsPlaced, panel, locals>>

(***************************************************************************)
(* optimize of a named engine as a function of its arguments: the same     *)
(* loops, folded, to set one engine's result beside the other's.           *)
(***************************************************************************)
RECURSIVE layPanel(_, _, _, _, _, _)
\* guillotineLayout, lines 128-140: the loops over the sorted unit-demands.
layPanel(engine, stock, units, kerf, placed, used) ==
    IF units = <<>>
    THEN [positions |-> placed, usedArea |-> used]
    ELSE LET placement == placementBy(engine, placed, stock, Head(units), kerf)
         IN  layPanel(engine, stock, Tail(units), kerf, placed \o placement,
                      usedAreaAfter(used, placement,
                                    dimensionsBy(engine, Head(units))))

\* guillotineLayout, lines 114-152.
guillotineLayoutBy(engine, stock, cuts, kerf) ==
    LET laid == layPanel(engine, stock, unitDemands(sortCuts(cuts)), kerf, <<>>, 0)
        stockArea == stock.width * stock.height
    IN  [stockId |-> stock.id,
         positions |-> laid.positions,
         wasteArea |-> stockArea - laid.usedArea,
         utilizationRate |-> utilizationOf(laid.usedArea, stockArea)]

\* optimize, lines 250-291.
optimizeBy(engine, stocks, cuts, kerf) ==
    IF isEmptyInput(stocks, cuts)
    THEN ZeroResult
    ELSE LET instances == panelInstances(stocks)
             ls == [k \in 1..Len(instances) |->
                      guillotineLayoutBy(engine, instances[k], cuts, kerf)]
         IN  [layouts |-> ls,
              totalWaste |-> totalWasteOf(ls),
              averageUtilization |-> averageUtilizationOf(ls, stocks),
              totalStockUsed |-> totalStockUsedOf(stocks),
              totalCutsNeeded |-> cutLoad(cuts),
              cutsPlaced |-> SumSeq([k \in 1..Len(ls) |-> Len(ls[k].positions)])]

(***************************************************************************)
(* DXF export of a returned result.  An entity is a record: a LINE has its *)
(* two end points, a TEXT its insertion point (halves are fractions), its  *)
(* height in tenths and its label.  The label `PIECE_<a>_<b>` is the word  *)
(* and the two numbers printed after it.                                   *)
(***************************************************************************)

\* generateDXFRectangle, lines 389-447: bottom, right, top and left line.
rectangleLines(x, y, width, height) ==
    << [kind |-> "LINE", from |-> <<x, y>>, to |-> <<x + width, y>>],
       [kind |-> "LINE", from |-> <<x + width, y>>, to |-> <<x + width, y + height>>],
       [kind |-> "LINE", from |-> <<x + width, y + height>>, to |-> <<x, y + height>>],
       [kind |-> "LINE", from |-> <<x, y + height>>, to |-> <<x, y>>] >>

\* generateDXFRectangle, lines 449-461: the label at x + width / 2, y + height / 2.
rectangleText(x, y, width, height, label) ==
    [kind |-> "TEXT",
     at |-> <<Fraction(2 * x + width, 2), Fraction(2 * y + height, 2)>>,
     tenths |-> 25,
     label |-> label]

\* generateDXFRectangle, lines 385-464.
generateDXFRectangle(x, y, width, height, label) ==
    Append(rectangleLines(x, y, width, height),
           rectangleText(x, y, width, height, label))

\* generateLayoutEntities, line 374: `PIECE_${layoutIndex}_${index}`, both
\* indices counted from 0.
pieceLabel(pos, layoutIndex, index) ==
    [word |-> "PIECE", numbers |-> <<layoutIndex - 1, index - 1>>]

RECURSIVE concat(_)
\* The string concatenation `+=` of lines 296-298 and 368-377, on entity lists.
concat(parts) ==
    IF parts = <<>> THEN <<>> ELSE Head(parts) \o concat(Tail(parts))

\* generateLayoutEntities, lines 365-380.
generateLayoutEntities(layout, layoutIndex) ==
    concat([index \in 1..Len(layout.positions) |->
              LET pos == layout.positions[index]
              IN generateDXFRectangle(pos.x, pos.y, pos.width, pos.height,
                                      pieceLabel(pos, layoutIndex, index))])

\* generateDXF, lines 287-305: the entities between SECTION/ENTITIES and ENDSEC.
generateDXFEntities(res) ==
    concat([layoutIndex \in 1..Len(res.layouts) |->
              generateLayoutEntities(res.layouts[layoutIndex], layoutIndex)])

\* exportDXFFile / generateDXF, lines 287-305 and 469-478, on the returned result.
generateDXF ==
    /\ pc = "done"
    /\ dxf = <<>>
    /\ dxf' = <<generateDXFEntities(result[1])>>
    /\ UNCHANGED <<inputs, page, layouts, totalCutsNeeded, cutsPlaced, panel,
                   locals, pc, result>>

Next ==
    \/ generateDXF
    \/ optimizeEmpty
    \/ optimizeBegin
    \/ guillotineBegin
    \/ placeCut
    \/ guillotineEnd
    \/ optimizeReturn

Spec == Init /\ [][Next]_vars

SpecDegenerate == InitDegenerate /\ [][Next]_vars

(***************************************************************************)
(* Runs at the sizes of the worked scenarios: panels of 100 x 100 and      *)
(* 1000 x 1000, a 400 x 300 plank and a 60 x 90 post with vertical grain.  *)
(***************************************************************************)
ScenarioShapes == {<<100, 100>>, <<1000, 1000>>}
ScenarioPlank ==
    [width |-> 400, height |-> 300, pattern |-> "unset", edgeBand |-> NoEdgeBand]
ScenarioPost ==
    [width |-> 60, height |-> 90, pattern |-> "vertical", edgeBand |-> NoEdgeBand]
ScenarioStockLists == ListsOver(ScenarioShapes, 1..MaxPanels, MaxPanels)
ScenarioCutLists == ListsOver({ScenarioPlank, ScenarioPost}, 1..MaxUnits, MaxUnits)

InitScenarios ==
    /\ variant \in Variants
    /\ \E list \in ScenarioStockLists :
          stockPieces = [i \in 1..Len(list) |-> stockEntry(i, list[i][1], list[i][2])]
    /\ \E list \in ScenarioCutLists :
          cutPieces = [i \in 1..Len(list) |-> cutEntry(i, list[i][1], list[i][2])]
    /\ cutWidth \in Kerfs
    /\ Start

SpecScenarios == InitScenarios /\ [][Next]_vars

(***************************************************************************)
(* Runs on panels whose width leaves, beside a 60 x 90 post, a free strip  *)
(* that holds a grid origin for a second post (130 wide) or only origins   *)
(* off the grid (125 wide).                                                *)
(***************************************************************************)
OffGridShapes == {<<125, 100>>, <<130, 100>>}
OffGridStockLists == ListsOver(OffGridShapes, 1..MaxPanels, MaxPanels)
OffGridCutLists == ListsOver({ScenarioPost, ScenarioPlank}, 1..MaxUnits, MaxUnits)

InitOffGrid ==
    /\ variant \in Variants
    /\ \E list \in OffGridStockLists :
          stockPieces = [i \in 1..Len(list) |-> stockEntry(i, list[i][1], list[i][2])]
    /\ \E list \in OffGridCutLists :
          cutPieces = [i \in 1..Len(list) |-> cutEntry(i, list[i][1], list[i][2])]
    /\ cutWidth \in Kerfs
    /\ Start

SpecOffGrid == InitOffGrid /\ [][Next]_vars

(***************************************************************************)
(* The Dimension Resolver on its own: one cut piece, nominal sizes and     *)
(* edge bands of every shape, and the one step that resolves it.           *)
(***************************************************************************)
NominalSizes == {1, 3, 10, 500}
Thicknesses == {0 - 1} \cup (0..MaxThickness)

EdgeBands ==
    {NoEdgeBand} \cup
    { band(t, top, bottom, left, right) :
        t \in Thicknesses, top \in BOOLEAN, bottom \in BOOLEAN,
        left \in BOOLEAN, right \in BOOLEAN }

InitDims ==
    /\ variant = "edgeband"
    /\ stockPieces = <<>>
    /\ \E w \in NominalSizes, h \in NominalSizes, b \in EdgeBands :
          cutPieces = <<cutEntry(1, [width |-> w, height |-> h,
                                     pattern |-> "unset", edgeBand |-> b], 1)>>
    /\ cutWidth = 3
    /\ Start

resolveDimensions ==
    /\ pc = "call"
    /\ cuttingDims' = <<getCuttingDimensions(cutPieces[1])>>
    /\ pc' = "resolved"
    /\ UNCHANGED <<inputs, page, dxf, layouts, totalCutsNeeded, cutsPlaced, panel,
                   remainingCuts, unit, positions, usedArea, result>>

NextDims == resolveDimensions

SpecDims == InitDims /\ [][NextDims]_vars

(***************************************************************************)
(* The useOptimizer hook and the Home page that uses it.  A handler runs   *)
(* to its end before the next one starts; runOptimization is cut in two at *)
(* the call of optimize, which either returns its value or throws.         *)
(* pc is "idle" between handlers, "running" inside runOptimization and     *)
(* "caught" inside its catch block; result is <<>> for null.  The hook     *)
(* imports the plain engine.                                               *)
(***************************************************************************)
MaxListed == 1      \* entries of the stock list and of the cut list, at most

\* What generateId may return (an id no listed piece has), and what the form
\* and the slider may submit.
HookIds == {1, 2}
HookQuantities == {1, 2}
HookStockInputs == {<<30, 20>>} \X HookQuantities
HookCutInputs == {SmallSquare} \X HookQuantities
HookKerfs == {1, 3}

engineState ==
    <<variant, layouts, totalCutsNeeded, cutsPlaced, panel, locals, dxf>>

InitHook ==
    /\ variant = "plain"
    /\ stockPieces = <<>>
    /\ cutPieces = <<>>
    /\ cutWidth = 3
    /\ pc = "idle"
    /\ Fresh

idsOf(pieces) == {pieces[i].id : i \in 1..Len(pieces)}

withoutId(pieces, id) == SelectSeq(pieces, LAMBDA piece : piece.id # id)

withQuantity(pieces, id, quantity) ==
    [i \in 1..Len(pieces) |->
        IF pieces[i].id = id THEN [pieces[i] EXCEPT !.quantity = quantity]
        ELSE pieces[i]]

addStockPiece ==
    /\ pc = "idle"
    /\ Len(stockPieces) < MaxListed
    /\ \E stock \in HookStockInputs, id \in HookIds \ idsOf(stockPieces) :
          stockPieces' = Append(stockPieces, stockEntry(id, stock[1], stock[2]))
    /\ UNCHANGED <<cutPieces, cutWidth, pc, result, page, engineState>>

removeStockPiece ==
    /\ pc = "idle"
    /\ \E id \in HookIds : stockPieces' = withoutId(stockPieces, id)
    /\ UNCHANGED <<cutPieces, cutWidth, pc, result, page, engineState>>

addCutPiece ==
    /\ pc = "idle"
    /\ Len(cutPieces) < MaxListed
    /\ \E cut \in HookCutInputs, id \in HookIds \ idsOf(cutPieces) :
          cutPieces' = Append(cutPieces, cutEntry(id, cut[1], cut[2]))
    /\ UNCHANGED <<stockPieces, cutWidth, pc, result, page, engineState>>

removeCutPiece ==
    /\ pc = "idle"
    /\ \E id \in HookIds : cutPieces' = withoutId(cutPieces, id)
    /\ UNCHANGED <<stockPieces, cutWidth, pc, result, page, engineState>>

updateStockPiece ==
    /\ pc = "idle"
    /\ \E id \in HookIds, quantity \in HookQuantities :
          stockPieces' = withQuantity(stockPieces, id, quantity)
    /\ UNCHANGED <<cutPieces, cutWidth, pc, result, page, engineState>>

updateCutPiece ==
    /\ pc = "idle"
    /\ \E id \in HookIds, quantity \in HookQuantities :
          cutPieces' = withQuantity(cutPieces, id, quantity)
    /\ UNCHANGED <<stockPieces, cutWidth, pc, result, page, engineState>>

setCutWidth ==
    /\ pc = "idle"
    /\ \E value \in HookKerfs : cutWidth' = value
    /\ UNCHANGED <<stockPieces, cutPieces, pc, result, page, engineState>>

\* runOptimization, lines 157-159: the early return.
runOptimizationEmpty ==
    /\ pc = "idle"
    /\ isEmptyInput(stockPieces, cutPieces)
    /\ UNCHANGED vars

\* handleOptimize into runOptimization, lines 161-162, up to the call.
runOptimizationBegin ==
    /\ pc = "idle"
    /\ ~isEmptyInput(stockPieces, cutPieces)
    /\ isOptimizing' = TRUE
    /\ pc' = "running"
    /\ UNCHANGED <<stockPieces, cutPieces, cutWidth, result, activeLayout, engineState>>

\* Mutant: the result is computed for the empty lists.
resultOfRunStale(stocks, cuts, kerf) == optimizeBy("plain", <<>>, <<>>, kerf)

\* runOptimization, lines 163-164.
resultOfRun(stocks, cuts, kerf) == optimizeBy("plain", stocks, cuts, kerf)

\* Mutant: the flag is left as it is.
flagAfterRunKept(flag) == flag

\* runOptimization, lines 167-169: finally.
flagAfterRun(flag) == FALSE

\* Mutant: handleOptimize leaves the index as it is.
layoutAfterOptimizeKept(index) == index

\* handleOptimize, Home line 26: setActiveLayout(0).
layoutAfterOptimize(index) == 0

\* optimize returned: lines 163-164, finally, then setActiveLayout(0).
runOptimizationReturns ==
    /\ pc = "running"
    /\ result' = <<resultOfRun(stockPieces, cutPieces, cutWidth)>>
    /\ isOptimizing' = flagAfterRun(isOptimizing)
    /\ activeLayout' = layoutAfterOptimize(activeLayout)
    /\ pc' = "idle"
    /\ UNCHANGED <<stockPieces, cutPieces, cutWidth, engineState>>

\* optimize threw: control enters catch, lines 165-166 (console.error).
runOptimizationThrows ==
    /\ pc = "running"
    /\ pc' = "caught"
    /\ UNCHANGED <<stockPieces, cutPieces, cutWidth, result, page, engineState>>

\* After the catch: finally, lines 167-169, then setActiveLayout(0).
runOptimizationCaught ==
    /\ pc = "caught"
    /\ isOptimizing' = flagAfterRun(isOptimizing)
    /\ activeLayout' = layoutAfterOptimize(activeLayout)
    /\ pc' = "idle"
    /\ UNCHANGED <<stockPieces, cutPieces, cutWidth, result, engineState>>

\* Home, lines 119-134: a button per layout, shown for two layouts or more;
\* line 126: setActiveLayout(index).
setActiveLayout ==
    /\ pc = "idle"
    /\ result # <<>>
    /\ Len(result[1].layouts) > 1
    /\ \E index \in 0..(Len(result[1].layouts) - 1) : activeLayout' = index
    /\ UNCHANGED <<stockPieces, cutPieces, cutWidth, pc, result, isOptimizing,
                   engineState>>

clearAll ==
    /\ pc = "idle"
    /\ stockPieces' = <<>>
    /\ cutPieces' = <<>>
    /\ result' = <<>>
    /\ UNCHANGED <<cutWidth, pc, page, engineState>>

NextHook ==
    \/ addStockPiece
    \/ removeStockPiece
    \/ addCutPiece
    \/ removeCutPiece
    \/ updateStockPiece
    \/ updateCutPiece
    \/ setCutWidth
    \/ runOptimizationEmpty
    \/ runOptimizationBegin
    \/ runOptimizationReturns
    \/ runOptimizationThrows
    \/ runOptimizationCaught
    \/ setActiveLayout
    \/ clearAll

SpecHook == InitHook /\ [][NextHook]_vars

(***************************************************************************)
(* Properties.                                                             *)
(***************************************************************************)
returned == result[1]

quantityUpTo(stocks, i) == SumSeq([j \in 1..i |-> stocks[j].quantity])

\* The stock specification that owns the k-th layout of a result.
ownerOf(stocks, k) ==
    CHOOSE i \in 1..Len(stocks) :
        quantityUpTo(stocks, i - 1) < k /\ k <= quantityUpTo(stocks, i)

panelOf(k) == stockPieces[ownerOf(stockPieces, k)]

\* Identifiers are list positions: the cut specification of a placement.
cutOf(p) == cutPieces[p.pieceId]

placedArea(ps) == SumSeq([i \in 1..Len(ps) |-> ps[i].width * ps[i].height])

\* The kerf-inflated rectangles of p and q are separated on an axis.
apart(p, q, kerf) ==
    \/ p.x + p.width + kerf < q.x - kerf
    \/ q.x + q.width + kerf < p.x - kerf
    \/ p.y + p.height + kerf < q.y - kerf
    \/ q.y + q.height + kerf < p.y - kerf

\* C1: in every layout returned by optimize, the kerf-inflated rectangles of
\* any two distinct placements are separated on the x axis or on the y axis.
C1_NoOverlap ==
    pc = "done" =>
        \A k \in 1..Len(returned.layouts) :
            LET ps == returned.layouts[k].positions
            IN  \A i, j \in 1..Len(ps) : i < j => apart(ps[i], ps[j], cutWidth)

C1_Witness ==
    /\ pc = "done"
    /\ cutWidth = 3
    /\ \E k \in 1..Len(returned.layouts) : Len(returned.layouts[k].positions) >= 2

\* C2: in every layout returned by optimize, wasteArea plus the placed areas
\* equals the area of the panel.
C2_AreaConservation ==
    pc = "done" =>
        \A k \in 1..Len(returned.layouts) :
            returned.layouts[k].wasteArea + placedArea(returned.layouts[k].positions)
                = panelOf(k).width * panelOf(k).height

C2_Witness ==
    /\ pc = "done"
    /\ variant = "edgeband"
    /\ \E k \in 1..Len(returned.layouts) :
          \E i \in 1..Len(returned.layouts[k].positions) :
              returned.layouts[k].positions[i].rotated
    /\ \E k \in 1..Len(returned.layouts) :
          \E i \in 1..Len(returned.layouts[k].positions) :
              LET p == returned.layouts[k].positions[i]
              IN  /\ cutOf(p).edgeBand.present
                  /\ p.width * p.height # cutOf(p).width * cutOf(p).height

hasGrain(cut) == cut.pattern \in {"horizontal", "vertical"}

\* The in-bounds grid origins at which a width x height rectangle is clear
\* of every placed piece.
admissibleOrigins(placed, stock, width, height, kerf) ==
    { o \in (0..(stock.width - width)) \X (0..(stock.height - height)) :
        /\ o[1] % GridStep = 0
        /\ o[2] % GridStep = 0
        /\ \A i \in 1..Len(placed) :
              apart([x |-> o[1], y |-> o[2], width |-> width, height |-> height],
                    placed[i], kerf) }

C3_PlacedUpright ==
    (pc = "done" /\ variant = "edgeband") =>
        \A k \in 1..Len(returned.layouts) :
            \A i \in 1..Len(returned.layouts[k].positions) :
                LET p == returned.layouts[k].positions[i]
                IN  hasGrain(cutOf(p)) =>
                        /\ p.rotated = FALSE
                        /\ p.width = getCuttingDimensions(cutOf(p)).width
                        /\ p.height = getCuttingDimensions(cutOf(p)).height

C3_SkippedWhenNoUprightSlot ==
    (/\ pc = "cut"
     /\ variant = "edgeband"
     /\ unit <= Len(unitDemands(remainingCuts))
     /\ hasGrain(unitDemands(remainingCuts)[unit])
     /\ admissibleOrigins(positions, panelInstances(stockPieces)[panel],
            getCuttingDimensions(unitDemands(remainingCuts)[unit]).width,
            getCuttingDimensions(unitDemands(remainingCuts)[unit]).height,
            cutWidth) = {})
    => positions' = positions

\* C3: in the edge-band-aware engine a piece with pattern horizontal or
\* vertical is placed un-rotated at its resolved size, and is not placed at
\* all when it has no admissible un-rotated origin.
C3_OrientationRespect ==
    [](C3_PlacedUpright) /\ [][C3_SkippedWhenNoUprightSlot]_vars

\* One layout holds a placed piece with a grain; another is empty although
\* the only piece, which has a grain, would fit its panel when turned.
C3_Witness ==
    /\ pc = "done"
    /\ variant = "edgeband"
    /\ Len(cutPieces) = 1
    /\ hasGrain(cutPieces[1])
    /\ \E k \in 1..Len(returned.layouts) : returned.layouts[k].positions # <<>>
    /\ \E k \in 1..Len(returned.layouts) :
          /\ returned.layouts[k].positions = <<>>
          /\ getCuttingDimensions(cutPieces[1]).height <= panelOf(k).width
          /\ getCuttingDimensions(cutPieces[1]).width <= panelOf(k).height

flagged(a, b) == (IF a THEN 1 ELSE 0) + (IF b THEN 1 ELSE 0)

\* C4: the Dimension Resolver returns max(1, w - t * flagged sides) on each
\* axis for a band of thickness t > 0, the nominal size without a band, and
\* never less than 1; 500x500 with t = 2 on four sides gives 496x496.
C4_DimensionResolver ==
    pc = "resolved" =>
        LET cut == cutPieces[1]
            b == cut.edgeBand
            got == cuttingDims[1]
        IN  /\ (b.present /\ b.thickness > 0) =>
                  /\ got.width = Max(1, cut.width - b.thickness * flagged(b.left, b.right))
                  /\ got.height = Max(1, cut.height - b.thickness * flagged(b.top, b.bottom))
            /\ ~b.present => (got.width = cut.width /\ got.height = cut.height)
            /\ got.width >= 1
            /\ got.height >= 1
            /\ (/\ cut.width = 500 /\ cut.height = 500 /\ b.present /\ b.thickness = 2
                /\ b.top /\ b.bottom /\ b.left /\ b.right)
               => (got.width = 496 /\ got.height = 496)

C4_Witness ==
    /\ pc = "resolved"
    /\ cutPieces[1].width = 500
    /\ cutPieces[1].height = 500
    /\ cutPieces[1].edgeBand = band(2, TRUE, TRUE, TRUE, TRUE)
    /\ cuttingDims = <<[width |-> 496, height |-> 496]>>

\* C5: with an empty stock list or an empty cut list optimize returns the
\* zero-valued result.
C5_EmptyInput ==
    (pc = "done" /\ (stockPieces = <<>> \/ cutPieces = <<>>)) =>
        result = <<[layouts |-> <<>>, totalWaste |-> 0,
                    averageUtilization |-> [num |-> 0, den |-> 1],
                    totalStockUsed |-> 0, totalCutsNeeded |-> 0, cutsPlaced |-> 0]>>

C5_Witness ==
    /\ pc = "done"
    /\ cutPieces = <<>>
    /\ Len(stockPieces) = 2
    /\ returned.layouts = <<>>
    /\ returned.totalStockUsed = 0

\* C7: for non-empty inputs there is one layout per panel instance, in
\* stock-list order, carrying the identifier of its stock specification, and
\* a layout without placements wastes the whole panel.
C7_OneLayoutPerInstance ==
    (pc = "done" /\ stockPieces # <<>> /\ cutPieces # <<>>) =>
        /\ Len(returned.layouts) = quantityUpTo(stockPieces, Len(stockPieces))
        /\ \A k \in 1..Len(returned.layouts) :
              /\ returned.layouts[k].stockId = panelOf(k).id
              /\ returned.layouts[k].positions = <<>> =>
                    returned.layouts[k].wasteArea = panelOf(k).width * panelOf(k).height

C7_Witness ==
    /\ pc = "done"
    /\ Len(stockPieces) = 1
    /\ stockPieces[1].quantity = 2
    /\ Len(returned.layouts) = 2
    /\ returned.layouts[1].positions = <<>>
    /\ returned.layouts[2].stockId = stockPieces[1].id

\* C8: two panel instances of equal width and height get the same
\* placements, waste and utilization, wherever they are in the stock list.
C8_PanelIndependence ==
    pc = "done" =>
        \A k1, k2 \in 1..Len(returned.layouts) :
            (/\ panelOf(k1).width = panelOf(k2).width
             /\ panelOf(k1).height = panelOf(k2).height)
            => /\ returned.layouts[k1].positions = returned.layouts[k2].positions
               /\ returned.layouts[k1].wasteArea = returned.layouts[k2].wasteArea
               /\ returned.layouts[k1].utilizationRate
                     = returned.layouts[k2].utilizationRate

C8_Witness ==
    /\ pc = "done"
    /\ Len(returned.layouts) = 2
    /\ returned.layouts[1].stockId # returned.layouts[2].stockId
    /\ panelOf(1).width = panelOf(2).width
    /\ panelOf(1).height = panelOf(2).height
    /\ returned.layouts[2].positions # <<>>
    /\ returned.cutsPlaced = returned.totalCutsNeeded * 2

C10_UtilizationFinite ==
    pc = "done" =>
        /\ \A k \in 1..Len(returned.layouts) :
              /\ IsFinite(returned.layouts[k].utilizationRate)
              /\ panelOf(k).width * panelOf(k).height = 0 =>
                    returned.layouts[k].utilizationRate = [num |-> 0, den |-> 1]
        /\ IsFinite(returned.averageUtilization)
        /\ totalStockAreaOf(stockPieces) = 0 =>
              returned.averageUtilization = [num |-> 0, den |-> 1]

\* Some unit-demand found no slot on panel instance k.
unplacedOn(k) == Len(returned.layouts[k].positions) < Len(unitDemands(cutPieces))

\* C11: in every result cutsPlaced <= totalCutsNeeded, the latter being the sum
\* of the cut quantities, and cutsPlaced < totalCutsNeeded whenever some
\* unit-demand could not be placed on some panel instance.
C11_PlacedWithinNeeded ==
    (pc = "done" /\ stockPieces # <<>> /\ cutPieces # <<>>) =>
        /\ returned.totalCutsNeeded
              = SumSeq([i \in 1..Len(cutPieces) |-> cutPieces[i].quantity])
        /\ returned.cutsPlaced <= returned.totalCutsNeeded
        /\ (\E k \in 1..Len(returned.layouts) : unplacedOn(k))
              => returned.cutsPlaced < returned.totalCutsNeeded

\* C12 as stated: totalStockUsed is the length of the stock list in every
\* result, whatever the quantities are.
C12_StockUsedIsListLength ==
    pc = "done" => returned.totalStockUsed = Len(stockPieces)

\* C12: when neither list is empty, totalStockUsed is the number of entries of
\* the stock list, whatever their quantities (0 included) and however many
\* layouts there are; with an empty stock or cut list it is 0.
C12_StockUsedIsListLengthUnlessEmpty ==
    pc = "done" =>
        returned.totalStockUsed
            = IF stockPieces = <<>> \/ cutPieces = <<>> THEN 0 ELSE Len(stockPieces)

C12_Witness ==
    /\ pc = "done"
    /\ cutPieces # <<>>
    /\ \E i \in 1..Len(stockPieces) : stockPieces[i].quantity = 0
    /\ returned.totalStockUsed = 2
    /\ Len(returned.layouts) = 1

\* C13: no step of optimize changes the stock list, the cut list or the kerf
\* (the largest-first sort works on a copy), and a layout, once appended, is
\* not changed by the work on later panels.
C13_InputsUnmodified ==
    [][/\ stockPieces' = stockPieces
       /\ cutPieces' = cutPieces
       /\ cutWidth' = cutWidth
       /\ Len(layouts') >= Len(layouts)
       /\ \A k \in 1..Len(layouts) : layouts'[k] = layouts[k]]_vars

C13_Witness ==
    /\ pc = "done"
    /\ Len(returned.layouts) = 2
    /\ remainingCuts # cutPieces
    /\ returned.layouts[1].positions # <<>>
    /\ returned.layouts[2].positions # <<>>

\* The run is on one panel of the given size, quantity 1, and one cut entry.
onePanelOneCut(width, height, piece, quantity) ==
    /\ Len(stockPieces) = 1
    /\ stockPieces[1] = stockEntry(1, <<width, height>>, 1)
    /\ Len(cutPieces) = 1
    /\ cutPieces[1] = cutEntry(1, piece, quantity)

\* C14: one 1000 x 1000 panel of quantity 1, one cut 400 x 300 of quantity 2
\* without edge band or pattern, kerf 3: exactly one layout with exactly two
\* placements that do not overlap, utilizationRate 24, wasteArea 760000 and
\* cutsPlaced = totalCutsNeeded = 2.
C14_ScenarioTwoPlanks ==
    (pc = "done" /\ onePanelOneCut(1000, 1000, ScenarioPlank, 2) /\ cutWidth = 3) =>
        /\ Len(returned.layouts) = 1
        /\ Len(returned.layouts[1].positions) = 2
        /\ apart(returned.layouts[1].positions[1],
                 returned.layouts[1].positions[2], 0)
        /\ returned.layouts[1].utilizationRate = [num |-> 24, den |-> 1]
        /\ returned.layouts[1].wasteArea = 760000
        /\ returned.cutsPlaced = 2
        /\ returned.totalCutsNeeded = 2

C14_Witness ==
    /\ pc = "done"
    /\ onePanelOneCut(1000, 1000, ScenarioPlank, 2)
    /\ cutWidth = 3
    /\ variant = "edgeband"
    /\ Len(returned.layouts[1].positions) = 2
    /\ returned.layouts[1].positions[2].y = 310

\* C15 as stated: on one empty 100 x 100 panel a 60 x 90 piece of quantity 1
\* with vertical grain gets no placement, and cutsPlaced is 0.
C15_ScenarioPostUnplaced ==
    (pc = "done" /\ onePanelOneCut(100, 100, ScenarioPost, 1)) =>
        /\ Len(returned.layouts) = 1
        /\ returned.layouts[1].positions = <<>>
        /\ returned.cutsPlaced = 0

\* C15: on one empty 100 x 100 panel a 60 x 90 piece of quantity 1 with
\* vertical grain fits as it stands: it is placed once, at the origin, 60 wide
\* and 90 high, not rotated, and cutsPlaced is 1.
C15_ScenarioPostUpright ==
    (pc = "done" /\ onePanelOneCut(100, 100, ScenarioPost, 1)) =>
        /\ Len(returned.layouts) = 1
        /\ returned.layouts[1].positions
              = <<[pieceId |-> 1, x |-> 0, y |-> 0,
                   width |-> 60, height |-> 90, rotated |-> FALSE]>>
        /\ returned.cutsPlaced = 1

C15_Witness ==
    /\ pc = "done"
    /\ onePanelOneCut(100, 100, ScenarioPost, 1)
    /\ variant = "edgeband"
    /\ returned.layouts[1].positions # <<>>
    /\ ~returned.layouts[1].positions[1].rotated

\* C16: in the plain engine (src/src/lib/optimizer.ts) a piece with pattern
\* 'horizontal' or 'vertical' is never placed with rotated = TRUE.
C16_PlainOrientationRespect ==
    (pc = "done" /\ variant = "plain") =>
        \A k \in 1..Len(returned.layouts) :
            \A i \in 1..Len(returned.layouts[k].positions) :
                hasGrain(cutOf(returned.layouts[k].positions[i]))
                    => ~returned.layouts[k].positions[i].rotated

\* The edge band of the cut shortens some side.
banded(cut) ==
    /\ cut.edgeBand.present
    /\ cut.edgeBand.thickness > 0
    /\ cut.edgeBand.top \/ cut.edgeBand.bottom \/ cut.edgeBand.left \/ cut.edgeBand.right

otherEngine == IF variant = "edgeband" THEN "plain" ELSE "edgeband"

\* The folded optimize of the running engine is the run's result.
runIsOptimizeBy ==
    pc = "done" => returned = optimizeBy(variant, stockPieces, cutPieces, cutWidth)

\* C17: when no cut piece has an edge band that shortens a side, and all
\* nominal sizes are at least 1, the result of one engine is the result of the
\* other: same layouts, placements, rotated flags and aggregates.
C17_EnginesAgree ==
    (/\ pc = "done"
     /\ \A i \in 1..Len(cutPieces) :
           ~banded(cutPieces[i]) /\ cutPieces[i].width >= 1 /\ cutPieces[i].height >= 1)
    => returned = optimizeBy(otherEngine, stockPieces, cutPieces, cutWidth)

\* The placements of a result, layout after layout, and the five entities
\* written for the j-th of them.
allPlacements(res) ==
    concat([k \in 1..Len(res.layouts) |-> res.layouts[k].positions])

entitiesOf(j) == SubSeq(dxf[1], 5 * (j - 1) + 1, 5 * j)

sides(p) ==
    { {<<p.x, p.y>>, <<p.x + p.width, p.y>>},
      {<<p.x + p.width, p.y>>, <<p.x + p.width, p.y + p.height>>},
      {<<p.x + p.width, p.y + p.height>>, <<p.x, p.y + p.height>>},
      {<<p.x, p.y + p.height>>, <<p.x, p.y>>} }

centre(p) == <<Fraction(2 * p.x + p.width, 2), Fraction(2 * p.y + p.height, 2)>>

\* Every placement has four LINE entities, the sides of its rectangle, and one
\* TEXT entity at the centre; there is no other entity.
outlinesDrawn ==
    LET ps == allPlacements(returned)
    IN  /\ Len(dxf[1]) = 5 * Len(ps)
        /\ \A j \in 1..Len(ps) :
              LET lines == {i \in 1..5 : entitiesOf(j)[i].kind = "LINE"}
                  texts == {i \in 1..5 : entitiesOf(j)[i].kind = "TEXT"}
              IN  /\ Cardinality(lines) = 4
                  /\ Cardinality(texts) = 1
                  /\ {{entitiesOf(j)[i].from, entitiesOf(j)[i].to} : i \in lines}
                        = sides(ps[j])
                  /\ \A i \in texts : entitiesOf(j)[i].at = centre(ps[j])

\* The label of every placement prints its placed width and height.
labelsShowSize ==
    LET ps == allPlacements(returned)
    IN  \A j \in 1..Len(ps) :
            \A i \in 1..5 :
                entitiesOf(j)[i].kind = "TEXT"
                    => entitiesOf(j)[i].label.numbers = <<ps[j].width, ps[j].height>>

dxfOutlines == (pc = "done" /\ dxf # <<>>) => outlinesDrawn

\* C18: for every placement of every layout generateDXF emits exactly four
\* LINE entities forming the rectangle (x,y)-(x+width,y+height) and exactly one
\* TEXT entity at the rectangle's centre whose label shows the placed width
\* and height; no other entity is emitted.
C18_DxfEntities ==
    (pc = "done" /\ dxf # <<>>) => (outlinesDrawn /\ labelsShowSize)

resolvedArea(cut) == areaAdded(getCuttingDimensions(cut))

\* The list is in descending resolved area, equal areas in input order.
largestResolvedFirst(cuts) ==
    \A i, j \in 1..Len(cuts) :
        i < j => \/ resolvedArea(cuts[i]) > resolvedArea(cuts[j])
                 \/ /\ resolvedArea(cuts[i]) = resolvedArea(cuts[j])
                    /\ cuts[i].id < cuts[j].id

\* C19: in the edge-band-aware engine the unit-demands of a panel are tried in
\* order of descending resolved area (after edge-band subtraction and
\* clamping), ties in cut-list order, so that the placements of every layout
\* are in non-increasing order of placed area.
C19_LargestResolvedFirst ==
    variant = "edgeband" =>
        /\ pc = "cut" => largestResolvedFirst(remainingCuts)
        /\ pc = "done" =>
              \A k \in 1..Len(returned.layouts) :
                  \A i, j \in 1..Len(returned.layouts[k].positions) :
                      i < j =>
                          areaAdded(returned.layouts[k].positions[i])
                              >= areaAdded(returned.layouts[k].positions[j])

\* A placement attempt is about to be made; the cut and the panel it is for.
trying == pc = "cut" /\ unit <= Len(unitDemands(remainingCuts))
cutTried == unitDemands(remainingCuts)[unit]
panelTried == panelInstances(stockPieces)[panel]

\* The admissible origins of the cut tried, as it stands and turned (none
\* turned when the piece may not turn or is square).
uprightOrigins ==
    admissibleOrigins(positions, panelTried,
                      getCuttingDimensions(cutTried).width,
                      getCuttingDimensions(cutTried).height, cutWidth)

turnedOrigins ==
    IF mayRotate(cutTried)
       /\ getCuttingDimensions(cutTried).width # getCuttingDimensions(cutTried).height
    THEN admissibleOrigins(positions, panelTried,
                           getCuttingDimensions(cutTried).height,
                           getCuttingDimensions(cutTried).width, cutWidth)
    ELSE {}

\* The origin that comes first with x ascending, then y ascending.
firstOrigin(origins) ==
    CHOOSE o \in origins :
        \A q \in origins : o[1] < q[1] \/ (o[1] = q[1] /\ o[2] <= q[2])

C20_Step ==
    (trying /\ variant = "edgeband") =>
        /\ uprightOrigins # {} =>
              positions' = Append(positions,
                  [pieceId |-> cutTried.id,
                   x |-> firstOrigin(uprightOrigins)[1],
                   y |-> firstOrigin(uprightOrigins)[2],
                   width |-> getCuttingDimensions(cutTried).width,
                   height |-> getCuttingDimensions(cutTried).height,
                   rotated |-> FALSE])
        /\ (positions' = positions) <=> (uprightOrigins \cup turnedOrigins = {})
        /\ positions' # positions =>
              /\ Len(positions') = Len(positions) + 1
              /\ SubSeq(positions', 1, Len(positions)) = positions
              /\ positions'[Len(positions')].x >= 0
              /\ positions'[Len(positions')].y >= 0
              /\ positions'[Len(positions')].x + positions'[Len(positions')].width
                    <= panelTried.width
              /\ positions'[Len(positions')].y + positions'[Len(positions')].height
                    <= panelTried.height
              /\ \A i \in 1..Len(positions) :
                    apart(positions'[Len(positions')], positions[i], cutWidth)

\* C20: findPlacement of the edge-band-aware engine returns, when the piece
\* has an admissible un-rotated grid origin inside the panel, the one that is
\* first with x ascending and then y ascending, un-rotated; it returns none
\* exactly when no grid origin is admissible in any orientation the piece may
\* take; and what it returns lies inside the panel, clear by the kerf rule of
\* every placement already on the panel.
C20_FirstFit == [][C20_Step]_vars

\* The second square went to (0, 20) although (20, 0) was admissible too.
C20_Witness ==
    /\ pc = "cut"
    /\ variant = "edgeband"
    /\ cutWidth = 0
    /\ Len(positions) = 2
    /\ positions[2].x = 0
    /\ positions[2].y = 20
    /\ <<20, 0>> \in admissibleOrigins(<<positions[1]>>, panelTried,
                                      positions[2].width, positions[2].height, cutWidth)

\* The placement a step has just appended.
placedLast == positions'[Len(positions')]

C21_Step ==
    (trying /\ variant = "edgeband" /\ positions' # positions) =>
        /\ placedLast.rotated =>
              /\ uprightOrigins = {}
              /\ mayRotate(cutTried)
              /\ getCuttingDimensions(cutTried).width
                    # getCuttingDimensions(cutTried).height
              /\ placedLast.width = getCuttingDimensions(cutTried).height
              /\ placedLast.height = getCuttingDimensions(cutTried).width
        /\ ~placedLast.rotated =>
              /\ placedLast.width = getCuttingDimensions(cutTried).width
              /\ placedLast.height = getCuttingDimensions(cutTried).height
        /\ getCuttingDimensions(cutTried).width = getCuttingDimensions(cutTried).height
              => ~placedLast.rotated

\* C21: a placement is marked rotated only if, when it was placed, no
\* un-rotated grid origin was admissible, the pattern was unset or 'none' and
\* the resolved width differed from the resolved height; a rotated placement
\* has the resolved sizes exchanged, an un-rotated one has them unchanged, and
\* a piece with equal resolved sizes is never marked rotated.
C21_RotationIsFallback == [][C21_Step]_vars

\* A piece that fits only when turned was placed turned.
C21_Witness ==
    /\ pc = "cut"
    /\ variant = "edgeband"
    /\ positions # <<>>
    /\ positions[Len(positions)].rotated
    /\ positions[Len(positions)].width # positions[Len(positions)].height
    /\ positions[Len(positions)].width
          = getCuttingDimensions(cutOf(positions[Len(positions)])).height

\* The grid origins at which a width x height rectangle lies inside the panel.
gridOrigins(stock, width, height) ==
    { o \in (0..(stock.width - width)) \X (0..(stock.height - height)) :
        o[1] % GridStep = 0 /\ o[2] % GridStep = 0 }

candidateAt(o) ==
    [x |-> o[1], y |-> o[2],
     width |-> getCuttingDimensions(cutTried).width,
     height |-> getCuttingDimensions(cutTried).height]

\* The rectangles inflated by the kerf have no interior point in common: they
\* are apart or share a boundary coordinate on one axis.
touchingOrApart(p, q, kerf) ==
    \/ p.x + p.width + kerf <= q.x - kerf
    \/ q.x + q.width + kerf <= p.x - kerf
    \/ p.y + p.height + kerf <= q.y - kerf
    \/ q.y + q.height + kerf <= p.y - kerf

\* C22: a candidate whose kerf-inflated rectangle at most touches the
\* kerf-inflated rectangle of every placed piece is admissible to the Overlap
\* Checker; with kerf 0 two pieces may lie edge to edge.
C22_TouchingAdmissible ==
    (trying /\ variant = "edgeband") =>
        \A o \in gridOrigins(panelTried, getCuttingDimensions(cutTried).width,
                             getCuttingDimensions(cutTried).height) :
            (\A i \in 1..Len(positions) :
                touchingOrApart(candidateAt(o), positions[i], cutWidth))
            => canPlacePiece(positions, o[1], o[2],
                             getCuttingDimensions(cutTried).width,
                             getCuttingDimensions(cutTried).height, cutWidth)

\* The gap between the two rectangles exceeds the kerf along some axis.
gapExceedsKerf(p, q, kerf) ==
    \/ p.x + p.width + kerf < q.x
    \/ q.x + q.width + kerf < p.x
    \/ p.y + p.height + kerf < q.y
    \/ q.y + q.height + kerf < p.y

\* C23: the Overlap Checker keeps half the kerf around each rectangle, so a
\* candidate whose gap to every placed piece exceeds the kerf along some axis
\* is admissible: the spacing enforced between two pieces is one kerf.
C23_SpacingIsOneKerf ==
    (trying /\ variant = "edgeband") =>
        \A o \in gridOrigins(panelTried, getCuttingDimensions(cutTried).width,
                             getCuttingDimensions(cutTried).height) :
            (\A i \in 1..Len(positions) :
                gapExceedsKerf(candidateAt(o), positions[i], cutWidth))
            => canPlacePiece(positions, o[1], o[2],
                             getCuttingDimensions(cutTried).width,
                             getCuttingDimensions(cutTried).height, cutWidth)

C24_Step ==
    (trying /\ variant = "edgeband") =>
        /\ uprightOrigins \cup turnedOrigins = {} =>
              /\ positions' = positions
              /\ usedArea' = usedArea
        /\ uprightOrigins \cup turnedOrigins # {} =>
              Len(positions') = Len(positions) + 1
        /\ unit' = unit + 1
        /\ pc' = "cut"
        /\ remainingCuts' = remainingCuts
        /\ result' = result

\* C24: when a unit-demand has no admissible slot on the panel, the placement
\* list and the used-area total stay as they are, nothing is raised, and the
\* builder goes on to the next unit-demand, which is placed if it has an
\* admissible slot, whatever happened to the units before it.
C24_SilentSkip == [][C24_Step]_vars

\* The larger piece found no slot and the smaller one after it was placed.
C24_Witness ==
    /\ pc = "done"
    /\ variant = "edgeband"
    /\ Len(cutPieces) = 2
    /\ Len(returned.layouts) = 1
    /\ Len(returned.layouts[1].positions) = 1
    /\ \E i \in 1..2 :
          /\ i # returned.layouts[1].positions[1].pieceId
          /\ nominalArea(cutPieces[i])
                > nominalArea(cutOf(returned.layouts[1].positions[1]))

\* Every origin, on the grid or off it, at which a width x height rectangle
\* lies inside the panel clear of all placed pieces.
anyOrigins(placed, stock, width, height, kerf) ==
    { o \in (0..(stock.width - width)) \X (0..(stock.height - height)) :
        \A i \in 1..Len(placed) :
            apart([x |-> o[1], y |-> o[2], width |-> width, height |-> height],
                  placed[i], kerf) }

C25_OnGrid ==
    pc = "done" =>
        \A k \in 1..Len(returned.layouts) :
            \A i \in 1..Len(returned.layouts[k].positions) :
                LET p == returned.layouts[k].positions[i]
                IN  /\ p.x >= 0 /\ p.x % 10 = 0
                    /\ p.y >= 0 /\ p.y % 10 = 0
                    /\ p.x <= panelOf(k).width - p.width
                    /\ p.y <= panelOf(k).height - p.height

C25_UnplacedOffGrid ==
    (trying /\ variant = "edgeband" /\ uprightOrigins \cup turnedOrigins = {})
        => positions' = positions

\* C25: every placement origin has x and y non-negative multiples of 10 with
\* x <= panel width - placed width and y <= panel height - placed height, and
\* a unit-demand with no admissible grid origin is left unplaced, also when an
\* origin off the grid would be admissible.
C25_GridResolution == [](C25_OnGrid) /\ [][C25_UnplacedOffGrid]_vars

\* The second post was left out of a 125 wide panel although it would be
\* clear of the first one at an x between the grid lines.
C25_Witness ==
    /\ pc = "cut"
    /\ variant = "edgeband"
    /\ unit = 3
    /\ Len(positions) = 1
    /\ admissibleOrigins(positions, panelTried,
                         getCuttingDimensions(unitDemands(remainingCuts)[2]).width,
                         getCuttingDimensions(unitDemands(remainingCuts)[2]).height,
                         cutWidth) = {}
    /\ anyOrigins(positions, panelTried,
                  getCuttingDimensions(unitDemands(remainingCuts)[2]).width,
                  getCuttingDimensions(unitDemands(remainingCuts)[2]).height,
                  cutWidth) # {}

\* C26: every placement of every layout lies inside its panel, x >= 0, y >= 0,
\* x + placed width <= panel width and y + placed height <= panel height,
\* rotated or not; no kerf is kept between a piece and the panel edge.
C26_InBounds ==
    pc = "done" =>
        \A k \in 1..Len(returned.layouts) :
            \A i \in 1..Len(returned.layouts[k].positions) :
                LET p == returned.layouts[k].positions[i]
                IN  /\ p.x >= 0
                    /\ p.y >= 0
                    /\ p.x + p.width <= panelOf(k).width
                    /\ p.y + p.height <= panelOf(k).height

\* With kerf 3 a rotated piece lies from one edge of its panel to the other.
C26_Witness ==
    /\ pc = "done"
    /\ cutWidth = 3
    /\ \E k \in 1..Len(returned.layouts) :
          \E i \in 1..Len(returned.layouts[k].positions) :
              LET p == returned.layouts[k].positions[i]
              IN  /\ p.rotated
                  /\ p.x = 0
                  /\ p.x + p.width = panelOf(k).width
                  /\ p.y + p.height = panelOf(k).height

\* The fraction lies between 0 and 100.
isPercentage(q) == q.den > 0 /\ 0 <= q.num /\ q.num <= 100 * q.den

\* C27: with panels of positive width and height and a kerf >= 0, every
\* layout has 0 <= wasteArea <= panel area and 0 <= utilizationRate <= 100, and
\* the result has 0 <= totalWaste <= total stock area and
\* 0 <= averageUtilization <= 100.
C27_WasteAndRateInRange ==
    (/\ pc = "done"
     /\ stockPieces # <<>>
     /\ cutPieces # <<>>
     /\ cutWidth >= 0
     /\ \A i \in 1..Len(stockPieces) :
           stockPieces[i].width > 0 /\ stockPieces[i].height > 0)
    => /\ \A k \in 1..Len(returned.layouts) :
             /\ 0 <= returned.layouts[k].wasteArea
             /\ returned.layouts[k].wasteArea <= panelOf(k).width * panelOf(k).height
             /\ isPercentage(returned.layouts[k].utilizationRate)
       /\ 0 <= returned.totalWaste
       /\ returned.totalWaste <= totalStockAreaOf(stockPieces)
       /\ isPercentage(returned.averageUtilization)

\* With kerf 3 one panel is used up to the last unit of area and the other,
\* of another size, is not.
C27_Witness ==
    /\ pc = "done"
    /\ cutWidth = 3
    /\ Len(returned.layouts) = 2
    /\ returned.layouts[1].wasteArea = 0
    /\ returned.layouts[1].utilizationRate = [num |-> 100, den |-> 1]
    /\ returned.layouts[2].wasteArea > 0
    /\ returned.totalWaste = returned.layouts[2].wasteArea

\* A step of one of the handlers that edit the lists or the cut width.
editStep ==
    \/ addStockPiece
    \/ removeStockPiece
    \/ addCutPiece
    \/ removeCutPiece
    \/ updateStockPiece
    \/ updateCutPiece
    \/ setCutWidth

C28_Step ==
    /\ result' # result =>
          \/ /\ pc = "running"
             /\ ~isEmptyInput(stockPieces, cutPieces)
             /\ result' = <<optimizeBy("plain", stockPieces, cutPieces, cutWidth)>>
             /\ stockPieces' = stockPieces
             /\ cutPieces' = cutPieces
             /\ cutWidth' = cutWidth
          \/ /\ pc = "idle"
             /\ result' = <<>>
             /\ stockPieces' = <<>>
             /\ cutPieces' = <<>>
             /\ cutWidth' = cutWidth
    /\ result' # result => (~editStep /\ cutWidth' = cutWidth)
    /\ (pc = "idle" /\ isEmptyInput(stockPieces, cutPieces)) =>
          /\ pc' = "idle"
          /\ isOptimizing' = isOptimizing
          /\ result' # result => result' = <<>>

\* C28: in useOptimizer the stored result changes only when runOptimization
\* sets it to the output of optimize for the current stock list, cut list and
\* cut width, and when clearAll sets it to null; adding, removing and updating
\* a piece and setting the cut width leave it as it is, runOptimization with
\* an empty list starts nothing, and clearAll leaves the cut width.
C28_ResultFrame == [][C28_Step]_vars

\* An earlier result is still stored after the stock list was emptied and the
\* cut width moved.
C28_Witness ==
    /\ pc = "idle"
    /\ result # <<>>
    /\ returned.layouts # <<>>
    /\ stockPieces = <<>>
    /\ cutPieces # <<>>
    /\ cutWidth = 1

C29_IdleNotOptimizing == pc = "idle" => isOptimizing = FALSE

C29_Step ==
    /\ pc # "idle" =>
          /\ stockPieces' = stockPieces
          /\ cutPieces' = cutPieces
          /\ cutWidth' = cutWidth
    /\ (pc = "caught" \/ pc' = "caught") => result' = result
    /\ (pc # "idle" /\ pc' = "idle") => isOptimizing' = FALSE

\* C29: isOptimizing is false after every runOptimization call has returned,
\* whether optimize returned or threw; when it throws, the error is caught and
\* the previous result, the stock list and the cut list stay as they were.
C29_OptimizingFlag == [](C29_IdleNotOptimizing) /\ [][C29_Step]_vars

\* optimize threw while an earlier result was stored.
C29_Witness ==
    /\ pc = "caught"
    /\ isOptimizing
    /\ result # <<>>
    /\ returned.layouts # <<>>
    /\ result # <<optimizeBy("plain", stockPieces, cutPieces, cutWidth)>>

C30_ShownLayoutExists ==
    (pc = "idle" /\ result # <<>> /\ Len(returned.layouts) >= 1) =>
        /\ 0 <= activeLayout
        /\ activeLayout < Len(returned.layouts)

C30_OptimizeResets == (pc # "idle" /\ pc' = "idle") => activeLayout' = 0

\* C30: in the Home page, whenever a result with at least one layout is shown,
\* 0 <= activeLayout < result.layouts.length, and Optimize always sets
\* activeLayout to 0.
C30_ActiveLayoutInRange == [](C30_ShownLayoutExists) /\ [][C30_OptimizeResets]_vars

\* The last layout of an earlier result is shown while the stock list now
\* asks for one panel only.
C30_Witness ==
    /\ pc = "idle"
    /\ result # <<>>
    /\ Len(returned.layouts) = 2
    /\ activeLayout = 1
    /\ stockPieces # <<>>
    /\ cutPieces # <<>>
    /\ Len(panelInstances(stockPieces)) = 1

====
